---- MODULE Spec2Model ----
(***************************************************************************)
(* A model of chgnet/model/model.py (class CHGNet, class BatchedGraph,     *)
(* class AngleEncoder) and of chgnet/model/dynamics.py.                    *)
(*                                                                         *)
(* Tensors are sequences; the indices stored in them are 0-based, as in    *)
(* the source, and At(t, i) reads row i.  Space has one dimension: a       *)
(* lattice is a 1-by-1 matrix (an integer), its determinant is itself, a   *)
(* unit bond vector is +1 or -1.  Every number that the source            *)
(* differentiates is a dual number [v, d]: its value v and its partial     *)
(* derivatives d[w] with respect to every variable w the batch holds (the  *)
(* Cartesian position of every atom and the strain of every structure),   *)
(* so that torch.autograd.grad(y, w) is y.d[w].                            *)
(***************************************************************************)
EXTENDS Integers, Sequences, FiniteSets, TLC

(* Bounds of the model. *)
MaxGraphs == 2
MaxConv == 3
MaxBatch == 2
MaxSplitLen == 3
MaxAngular == 4

(* model.py:44-45, the default cutoff radii of the two graphs. *)
atom_graph_cutoff == 5
bond_graph_cutoff == 3

---------------------------------------------------------------------------
(* Sequences as tensors. *)

Eager(x) ==
  (* x itself; the comparison makes TLC evaluate every element of a tensor *)
  (* once, where it would otherwise evaluate it anew at every use          *)
  IF x = x THEN x ELSE x

At(t, i) == t[i + 1]

Indices(t) == 0 .. (Len(t) - 1)

RECURSIVE Cat(_)
Cat(ts) == IF ts = <<>> THEN <<>> ELSE Head(ts) \o Cat(Tail(ts))

RECURSIVE SumInt(_)
SumInt(t) == IF t = <<>> THEN 0 ELSE Head(t) + SumInt(Tail(t))

Fill(n, x) == [i \in 1 .. n |-> x]

Slice(t, lo, hi) ==
  (* Python's t[lo:hi] for 0 <= lo: the bounds are clipped to the length. *)
  LET h == IF hi < Len(t) THEN hi ELSE Len(t)
  IN  IF lo >= h THEN <<>> ELSE [i \in 1 .. (h - lo) |-> t[lo + i]]

Max(a, b) == IF a >= b THEN a ELSE b

RECURSIVE Gcd(_, _)
Gcd(a, b) == IF b = 0 THEN a ELSE Gcd(b, a % b)

RECURSIVE LcmUpTo(_)
LcmUpTo(n) == IF n <= 1 THEN 1 ELSE LET l == LcmUpTo(n - 1) IN (l * n) \div Gcd(l, n)

---------------------------------------------------------------------------
(* Dual numbers over the variable set V of one batch. *)

PosVar(k, a) == <<"x", k, a>>
StrainVar(k) == <<"s", k, 0>>

K(c, V) == [v |-> c, d |-> [w \in V |-> 0]]

DAdd(x, y) == [v |-> x.v + y.v, d |-> [w \in DOMAIN x.d |-> x.d[w] + y.d[w]]]

DNeg(x) == [v |-> 0 - x.v, d |-> [w \in DOMAIN x.d |-> 0 - x.d[w]]]

DSub(x, y) == DAdd(x, DNeg(y))

DMul(x, y) ==
  [v |-> x.v * y.v, d |-> [w \in DOMAIN x.d |-> x.v * y.d[w] + y.v * x.d[w]]]

DScale(c, x) == [v |-> c * x.v, d |-> [w \in DOMAIN x.d |-> c * x.d[w]]]

DDiv(x, n) == [v |-> x.v \div n, d |-> [w \in DOMAIN x.d |-> x.d[w] \div n]]

DAbs(x) == IF x.v >= 0 THEN x ELSE DNeg(x)

RECURSIVE DSum(_, _)
DSum(t, V) == IF t = <<>> THEN K(0, V) ELSE DAdd(Head(t), DSum(Tail(t), V))

Select(t, keep(_)) ==
  (* the rows of t whose 0-based index satisfies keep, in order *)
  LET RECURSIVE go(_)
      go(i) == IF i >= Len(t) THEN <<>>
               ELSE (IF keep(i) THEN <<At(t, i)>> ELSE <<>>) \o go(i + 1)
  IN  go(0)

---------------------------------------------------------------------------
(* The per-structure graphs the converter hands over (chgnet.graph).       *)
(* atom_graph rows are (center, neighbor); bond_graph rows are (atom,      *)
(* undirected bond i, directed bond i, undirected bond j, directed bond j).*)

IsolatedAtom ==
  [atomic_number |-> <<1>>, atom_frac_coord |-> <<0>>, lattice |-> 3,
   requires_grad |-> TRUE,
   atom_graph |-> <<>>, neighbor_image |-> <<>>,
   undirected2directed |-> <<>>, directed2undirected |-> <<>>,
   bond_graph |-> <<>>]

(* two atoms 4 apart: bonded in the atom graph, too far for the bond graph *)
LongPair ==
  [atomic_number |-> <<3, 8>>, atom_frac_coord |-> <<0, 2>>, lattice |-> 2,
   requires_grad |-> TRUE,
   atom_graph |-> <<<<0, 1>>, <<1, 0>>>>, neighbor_image |-> <<0, 0>>,
   undirected2directed |-> <<0>>, directed2undirected |-> <<0, 0>>,
   bond_graph |-> <<>>]

(* a chain of period 3 with atoms at 0 and 1: every atom has a bond of     *)
(* length 1 and, across the cell boundary, a bond of length 2, and the     *)
(* angle between the two                                                   *)
Chain ==
  [atomic_number |-> <<2, 5>>, atom_frac_coord |-> <<0, 1>>, lattice |-> 1,
   requires_grad |-> TRUE,
   atom_graph |-> <<<<0, 1>>, <<0, 1>>, <<1, 0>>, <<1, 0>>>>,
   neighbor_image |-> <<0, -3, 0, 3>>,
   undirected2directed |-> <<0, 1>>, directed2undirected |-> <<0, 1, 0, 1>>,
   bond_graph |-> << <<0, 0, 0, 1, 1>>, <<0, 1, 1, 0, 0>>,
                     <<1, 0, 2, 1, 3>>, <<1, 1, 3, 0, 2>> >>]

(* three atoms in a row at 0, 1 and 2, every pair bonded and no bond       *)
(* across the cell boundary: the two bonds of an end atom point the same   *)
(* way, the two bonds of the middle atom point opposite ways               *)
Fork ==
  [atomic_number |-> <<1, 4, 6>>, atom_frac_coord |-> <<0, 1, 2>>, lattice |-> 1,
   requires_grad |-> TRUE,
   atom_graph |-> <<<<0, 1>>, <<0, 2>>, <<1, 0>>, <<1, 2>>, <<2, 0>>, <<2, 1>>>>,
   neighbor_image |-> <<0, 0, 0, 0, 0, 0>>,
   undirected2directed |-> <<0, 1, 3>>,
   directed2undirected |-> <<0, 1, 0, 2, 1, 2>>,
   bond_graph |-> << <<0, 0, 0, 1, 1>>, <<0, 1, 1, 0, 0>>,
                     <<1, 0, 2, 2, 3>>, <<1, 2, 3, 0, 2>>,
                     <<2, 1, 4, 2, 5>>, <<2, 2, 5, 1, 4>> >>]

Catalog == {IsolatedAtom, LongPair, Chain}

RECURSIVE ListsUpTo(_)
ListsUpTo(n) ==
  IF n = 0 THEN {<<>>}
  ELSE LET S == ListsUpTo(n - 1)
       IN  S \cup {Append(l, c) : l \in {s \in S : Len(s) = n - 1}, c \in Catalog}

---------------------------------------------------------------------------
(* BondEncoder, AngleEncoder and the basis functions they call. *)

RadialBessel(r, cutoff) ==
  (* chgnet.model.basis: a smooth radial basis that is zero from the cutoff on *)
  IF r.v < cutoff THEN DSub(K(cutoff, DOMAIN r.d), r) ELSE K(0, DOMAIN r.d)

Fourier(cosine) ==
  (* chgnet.model.basis: the expansion of acos(cosine), here 2 + cos(angle) *)
  2 + cosine

BondEncoder(center, neighbor, undirected2directed, image, lattice) ==
  LET J == 1 .. Len(center)
      shifted == [j \in J |-> DAdd(neighbor[j], DScale(image[j], lattice))]
      vectors == [j \in J |-> DSub(center[j], shifted[j])]
      bond_lengths == [j \in J |-> DAbs(vectors[j])]
      undirected_bond_lengths ==
        [u \in 1 .. Len(undirected2directed) |->
           At(bond_lengths, undirected2directed[u])]
  IN  [bond_basis_ag |->
         [u \in 1 .. Len(undirected2directed) |->
            RadialBessel(undirected_bond_lengths[u], atom_graph_cutoff)],
       bond_basis_bg |->
         [u \in 1 .. Len(undirected2directed) |->
            RadialBessel(undirected_bond_lengths[u], bond_graph_cutoff)],
       (* bond_vectors / bond_lengths: the unit vector, +1 or -1 *)
       bond_vectors |-> [j \in J |-> IF vectors[j].v >= 0 THEN 1 ELSE -1]]

AngleEncoder(bond_i, bond_j) ==
  [r \in 1 .. Len(bond_i) |-> Fourier(bond_i[r] * bond_j[r])]

---------------------------------------------------------------------------
(* BatchedGraph.from_graphs *)

BatchVars(graphs, compute_stress) ==
  UNION {{PosVar(k, a) : a \in Indices(At(graphs, k).atomic_number)} :
           k \in Indices(graphs)}
    \cup (IF compute_stress THEN {StrainVar(k) : k \in Indices(graphs)} ELSE {})

EmptyLists ==
  [atomic_numbers |-> <<>>, atom_positions |-> <<>>, strains |-> <<>>,
   volumes |-> <<>>, bond_bases_ag |-> <<>>, bond_bases_bg |-> <<>>,
   angle_bases |-> <<>>, batched_atom_graph |-> <<>>,
   batched_bond_graph |-> <<>>, directed2undirected |-> <<>>,
   atom_owners |-> <<>>, atom_offset_idx |-> 0, n_undirected |-> 0]

StrainedLattice(graph, graph_idx, compute_stress, V) ==
  (* lattice @ (eye + strain) at strain = 0, or the raw lattice *)
  [v |-> graph.lattice,
   d |-> [w \in V |-> IF compute_stress /\ w = StrainVar(graph_idx)
                       THEN graph.lattice ELSE 0]]

CartCoords(graph, graph_idx, lattice) ==
  (* atom_frac_coord @ lattice, as the tensor force is differentiated by *)
  [a \in 1 .. Len(graph.atom_frac_coord) |->
     LET c == DScale(graph.atom_frac_coord[a], lattice)
     IN  [c EXCEPT !.d[PosVar(graph_idx, a - 1)] = 1]]

UnshiftedAtomGraph(atom_graph, atom_offset_idx) ==
  (* the atom graph with the structure's own atom indices left as they are *)
  atom_graph

OffsetAtomGraph(atom_graph, atom_offset_idx) ==
  [j \in 1 .. Len(atom_graph) |->
     <<atom_graph[j][1] + atom_offset_idx, atom_graph[j][2] + atom_offset_idx>>]

OffsetDirected2Undirected(directed2undirected, n_undirected) ==
  [j \in 1 .. Len(directed2undirected) |-> directed2undirected[j] + n_undirected]

BondGraphByAtomOffset(bond_graph, atom_offset_idx, n_undirected) ==
  (* every field of a row shifted by the atom offset *)
  [r \in 1 .. Len(bond_graph) |->
     <<bond_graph[r][1] + atom_offset_idx,
       bond_graph[r][2] + atom_offset_idx,
       bond_graph[r][4] + atom_offset_idx>>]

OffsetBondGraph(bond_graph, atom_offset_idx, n_undirected) ==
  [r \in 1 .. Len(bond_graph) |->
     <<bond_graph[r][1] + atom_offset_idx,
       bond_graph[r][2] + n_undirected,
       bond_graph[r][4] + n_undirected>>]

FirstOwner(n_atom, graph_idx) ==
  (* every atom owned by structure 0 *)
  Fill(n_atom, 0)

AtomOwners(n_atom, graph_idx) == Fill(n_atom, graph_idx)

PrependAngles(angle_bases, angle_basis) ==
  (* the structure's angles put before those of the structures before it *)
  <<angle_basis>> \o angle_bases

AppendAngles(angle_bases, angle_basis) ==
  (* angle_bases.append(angle_basis) *)
  Append(angle_bases, angle_basis)

StrainAlways(graph_idx, compute_stress) ==
  (* a strain variable for every structure, asked for or not *)
  <<StrainVar(graph_idx)>>

StrainSlot(graph_idx, compute_stress) ==
  (* lattice.new_zeros([3, 3], requires_grad=True), or None *)
  IF compute_stress THEN <<StrainVar(graph_idx)>> ELSE <<>>

BatchOne(acc, graph, graph_idx, compute_stress, V) ==
  (* one iteration of the loop over enumerate(graphs) *)
  LET n_atom == Len(graph.atomic_number)
      strain == StrainSlot(graph_idx, compute_stress)
      lattice == StrainedLattice(graph, graph_idx, compute_stress, V)
      atom_cart_coords == CartCoords(graph, graph_idx, lattice)
      enc == BondEncoder(
               [j \in 1 .. Len(graph.atom_graph) |->
                  At(atom_cart_coords, graph.atom_graph[j][1])],
               [j \in 1 .. Len(graph.atom_graph) |->
                  At(atom_cart_coords, graph.atom_graph[j][2])],
               graph.undirected2directed, graph.neighbor_image, lattice)
      has_angles == Len(graph.bond_graph) # 0
      angle_basis ==
        AngleEncoder(
          [r \in 1 .. Len(graph.bond_graph) |->
             At(enc.bond_vectors, graph.bond_graph[r][3])],
          [r \in 1 .. Len(graph.bond_graph) |->
             At(enc.bond_vectors, graph.bond_graph[r][5])])
  IN  [atomic_numbers |-> Append(acc.atomic_numbers, graph.atomic_number),
       volumes |-> Append(acc.volumes, lattice.v),
       strains |-> Append(acc.strains, strain),
       atom_positions |->
         Append(acc.atom_positions,
                [coords |-> atom_cart_coords,
                 vars |-> [a \in 1 .. n_atom |-> PosVar(graph_idx, a - 1)],
                 requires_grad |-> graph.requires_grad \/ compute_stress]),
       bond_bases_ag |-> Append(acc.bond_bases_ag, enc.bond_basis_ag),
       bond_bases_bg |-> Append(acc.bond_bases_bg, enc.bond_basis_bg),
       batched_atom_graph |->
         Append(acc.batched_atom_graph,
                OffsetAtomGraph(graph.atom_graph, acc.atom_offset_idx)),
       directed2undirected |->
         Append(acc.directed2undirected,
                OffsetDirected2Undirected(graph.directed2undirected,
                                          acc.n_undirected)),
       angle_bases |->
         IF has_angles THEN AppendAngles(acc.angle_bases, angle_basis)
         ELSE acc.angle_bases,
       batched_bond_graph |->
         IF has_angles
         THEN Append(acc.batched_bond_graph,
                     OffsetBondGraph(graph.bond_graph, acc.atom_offset_idx,
                                     acc.n_undirected))
         ELSE acc.batched_bond_graph,
       atom_owners |-> Append(acc.atom_owners, AtomOwners(n_atom, graph_idx)),
       atom_offset_idx |-> acc.atom_offset_idx + n_atom,
       n_undirected |-> acc.n_undirected + Len(enc.bond_basis_ag)]

RECURSIVE BatchLoop(_, _, _, _, _)
BatchLoop(acc, graphs, graph_idx, compute_stress, V) ==
  IF graph_idx >= Len(graphs) THEN acc
  ELSE BatchLoop(BatchOne(acc, At(graphs, graph_idx), graph_idx, compute_stress, V),
                 graphs, graph_idx + 1, compute_stress, V)

from_graphs(graphs, compute_stress) ==
  LET V == BatchVars(graphs, compute_stress)
      l == BatchLoop(EmptyLists, graphs, 0, compute_stress, V)
  IN  [vars |-> V,
       atomic_numbers |-> Cat(l.atomic_numbers),
       bond_bases_ag |-> Cat(l.bond_bases_ag),
       bond_bases_bg |-> Cat(l.bond_bases_bg),
       angle_bases |-> Cat(l.angle_bases),
       batched_atom_graph |-> Cat(l.batched_atom_graph),
       batched_bond_graph |-> Cat(l.batched_bond_graph),
       atom_owners |-> Cat(l.atom_owners),
       directed2undirected |-> Cat(l.directed2undirected),
       atom_positions |-> l.atom_positions,
       strains |-> l.strains,
       volumes |-> l.volumes]

---------------------------------------------------------------------------
(* The layers of CHGNet.  The weights are fixed small integers; the layer  *)
(* classes themselves live in chgnet.model.layers and .functions.          *)

Put(dict, key, val) ==
  [x \in DOMAIN dict \cup {key} |-> IF x = key THEN val ELSE dict[x]]

EmptyDict == <<>>

Bincount(t) ==
  (* torch.bincount: one count per value 0 .. max(t) *)
  LET top == IF t = <<>> THEN -1
             ELSE CHOOSE x \in {t[i] : i \in 1 .. Len(t)} :
                    \A y \in {t[i] : i \in 1 .. Len(t)} : y <= x
  IN  [k \in 1 .. (top + 1) |-> Cardinality({i \in 1 .. Len(t) : t[i] = k - 1})]

RECURSIVE TorchSplit(_, _)
TorchSplit(x, sizes) ==
  (* torch.split(x, sizes) for sizes that sum to len(x): contiguous chunks *)
  IF sizes = <<>> THEN <<>>
  ELSE <<Slice(x, 0, Head(sizes))>>
         \o TorchSplit(Slice(x, Head(sizes), Len(x)), Tail(sizes))

atom_embedding(index, V) == K(index + 2, V)

bond_embedding(basis) == DAdd(basis, basis)

bond_weights_ag(basis) == basis

bond_weights_bg(basis) == basis

angle_embedding(basis, V) == K(basis + basis, V)

AtomConv(layer, atom_feas, bond_feas, bond_weights, atom_graph, directed2undirected, V) ==
  (* message of a directed bond: (neighbor + bond) * weight, summed at its   *)
  (* center; mlp_out adds its bias; resnet adds the old feature              *)
  [i \in 1 .. Len(atom_feas) |->
     LET msgs == [j \in 1 .. Len(atom_graph) |->
                    IF atom_graph[j][1] = i - 1
                    THEN DMul(DAdd(At(atom_feas, atom_graph[j][2]),
                                   At(bond_feas, directed2undirected[j])),
                              At(bond_weights, directed2undirected[j]))
                    ELSE K(0, V)]
     IN  DAdd(DAdd(atom_feas[i], DSum(msgs, V)), K(layer + 1, V))]

BondConv(layer, atom_feas, bond_feas, bond_weights, angle_feas, bond_graph, V) ==
  (* message of an angle (atom, bond i, bond j): (bond j + angle + atom)     *)
  (* * weight i * weight j, summed at bond i; mlp_out adds its bias; resnet  *)
  (* adds the old feature                                                    *)
  [u \in 1 .. Len(bond_feas) |->
     LET msgs == [r \in 1 .. Len(bond_graph) |->
                    IF bond_graph[r][2] = u - 1
                    THEN DMul(DAdd(At(bond_feas, bond_graph[r][3]),
                                   DAdd(angle_feas[r],
                                        At(atom_feas, bond_graph[r][1]))),
                              DMul(At(bond_weights, bond_graph[r][2]),
                                   At(bond_weights, bond_graph[r][3])))
                    ELSE K(0, V)]
     IN  DAdd(DAdd(bond_feas[u], DSum(msgs, V)), K(layer + 1, V))]

AngleUpdate(layer, atom_feas, bond_feas, angle_feas, bond_graph, V) ==
  [r \in 1 .. Len(angle_feas) |->
     DAdd(angle_feas[r],
          DAdd(At(atom_feas, bond_graph[r][1]),
               DAdd(At(bond_feas, bond_graph[r][2]), At(bond_feas, bond_graph[r][3]))))]

site_wise(atom_fea, V) == DSub(K(7, V), atom_fea)

(* The readout counts in units of 1/Unit, so that the divisions by an atom *)
(* count are exact.                                                        *)
MaxAtomCount ==
  CHOOSE n \in {Len(c.atomic_number) : c \in Catalog} :
    \A c \in Catalog : Len(c.atomic_number) <= n

Unit == LcmUpTo(MaxAtomCount)

mlp(x, V) == DAdd(DAdd(x, x), K(5 * Unit, V))

GraphPooling(feas, atom_owners, average, V) ==
  LET counts == Bincount(atom_owners)
  IN  [k \in 1 .. Len(counts) |->
         LET total == DSum(Select(feas, LAMBDA i : At(atom_owners, i) = k - 1), V)
         IN  IF average THEN DDiv(total, counts[k]) ELSE total]

Atom_Ref(graphs, is_intensive) ==
  (* chgnet.model.composition_model: a reference energy per element *)
  [k \in 1 .. Len(graphs) |->
     LET total == Unit * SumInt(graphs[k].atomic_number)
     IN  IF is_intensive THEN total \div Len(graphs[k].atomic_number) ELSE total]

---------------------------------------------------------------------------
(* CHGNet._compute, cut where the message-passing loop cuts it.  A frame   *)
(* holds the locals of one call.                                           *)

Tasks == {"e", "ef", "em", "efs", "efsm"}

HasChar(task, c) ==
  (* c in task *)
  \/ c = task
  \/ c = "e" /\ task \in Tasks
  \/ c = "f" /\ task \in {"ef", "efs", "efsm"}
  \/ c = "s" /\ task \in {"efs", "efsm"}
  \/ c = "m" /\ task \in {"em", "efsm"}

Flags(task, return_atom_feas, return_crystal_feas) ==
  [compute_force |-> HasChar(task, "f"),
   compute_stress |-> HasChar(task, "s"),
   site_wise |-> HasChar(task, "m"),
   return_atom_feas |-> return_atom_feas,
   return_crystal_feas |-> return_crystal_feas]

GPa == "160.21766208"

Embed(g) ==
  LET V == g.vars
      atoms_per_graph == Bincount(g.atom_owners)
  IN  [prediction |-> Put(EmptyDict, "atoms_per_graph", atoms_per_graph),
       atoms_per_graph |-> atoms_per_graph,
       atom_feas |-> [i \in 1 .. Len(g.atomic_numbers) |->
                        atom_embedding(g.atomic_numbers[i] - 1, V)],
       bond_feas |-> [u \in 1 .. Len(g.bond_bases_ag) |->
                        bond_embedding(g.bond_bases_ag[u])],
       bond_weights_ag |-> [u \in 1 .. Len(g.bond_bases_ag) |->
                              bond_weights_ag(g.bond_bases_ag[u])],
       bond_weights_bg |-> [u \in 1 .. Len(g.bond_bases_bg) |->
                              bond_weights_bg(g.bond_bases_bg[u])],
       angle_feas |-> IF Len(g.angle_bases) # 0
                      THEN [r \in 1 .. Len(g.angle_bases) |->
                              angle_embedding(g.angle_bases[r], V)]
                      ELSE <<>>,
       idx |-> 0,
       magmom |-> <<>>,
       energy |-> <<>>,
       trace |-> <<>>]

BondConvConfigured(m, g) ==
  (* the gate without the test for angles *)
  m.update_bond

RunsBondConv(m, g) == Len(g.angle_bases) # 0 /\ m.update_bond

AngleUpdateUnnested(m, g) ==
  (* the angle gate beside the bond gate, not inside it *)
  Len(g.angle_bases) # 0 /\ m.update_angle

RunsAngleUpdate(m, g) == RunsBondConv(m, g) /\ m.update_angle

IsSecondToLastInterior(m, idx) ==
  (* of the interior indices 0 .. n_conv - 2, the one before the last *)
  idx = m.n_conv - 3

IsSideStage(m, idx) == idx = m.n_conv - 2

SignedMagmom(atom_feas, V) ==
  (* the site-wise projection without the absolute value *)
  [i \in 1 .. Len(atom_feas) |-> site_wise(atom_feas[i], V)]

Magmom(atom_feas, V) ==
  [i \in 1 .. Len(atom_feas) |-> DAbs(site_wise(atom_feas[i], V))]

SideOutputs(m, prediction, atom_feas, atoms_per_graph, flags, V) ==
  LET p1 == IF flags.return_atom_feas
            THEN Put(prediction, "atom_fea", TorchSplit(atom_feas, atoms_per_graph))
            ELSE prediction
  IN  IF flags.site_wise
      THEN Put(p1, "m", TorchSplit(Magmom(atom_feas, V), atoms_per_graph))
      ELSE p1

InteriorStage(m, g, f, flags) ==
  (* one pass of the loop over zip(atom_conv_layers[:-1], bond_conv_layers, *)
  (* angle_layers), for idx = f.idx                                         *)
  LET V == g.vars
      atom_feas == AtomConv(f.idx, f.atom_feas, f.bond_feas, f.bond_weights_ag,
                            g.batched_atom_graph, g.directed2undirected, V)
      bond_feas == IF RunsBondConv(m, g)
                   THEN BondConv(f.idx, atom_feas, f.bond_feas, f.bond_weights_bg,
                                 f.angle_feas, g.batched_bond_graph, V)
                   ELSE f.bond_feas
      angle_feas == IF RunsAngleUpdate(m, g)
                    THEN AngleUpdate(f.idx, atom_feas, bond_feas, f.angle_feas,
                                     g.batched_bond_graph, V)
                    ELSE f.angle_feas
      side == IsSideStage(m, f.idx)
  IN  [f EXCEPT
         !.atom_feas = atom_feas,
         !.bond_feas = bond_feas,
         !.angle_feas = angle_feas,
         !.prediction = IF side
                        THEN SideOutputs(m, f.prediction, atom_feas,
                                         f.atoms_per_graph, flags, V)
                        ELSE @,
         !.magmom = IF side /\ flags.site_wise THEN Magmom(atom_feas, V) ELSE @,
         !.idx = @ + 1,
         !.trace = @ \o <<<<"atom", f.idx>>>>
                     \o (IF RunsBondConv(m, g) THEN <<<<"bond", f.idx>>>> ELSE <<>>)
                     \o (IF RunsAngleUpdate(m, g) THEN <<<<"angle", f.idx>>>> ELSE <<>>)
                     \o (IF side THEN <<<<"side", f.idx>>>> ELSE <<>>)]

Energy(m, g, atom_feas, atoms_per_graph) ==
  (* the readout of lines 384-392, before the intensive division *)
  LET V == g.vars
      scaled == [i \in 1 .. Len(atom_feas) |-> DScale(Unit, atom_feas[i])]
  IN  IF m.mlp_first
      THEN GraphPooling([i \in 1 .. Len(scaled) |-> mlp(scaled[i], V)],
                        g.atom_owners, FALSE, V)
      ELSE LET crystal_feas == GraphPooling(scaled, g.atom_owners, TRUE, V)
           IN  [k \in 1 .. Len(crystal_feas) |->
                  DScale(atoms_per_graph[k], mlp(crystal_feas[k], V))]

LastConvReadout(m, g, f, flags) ==
  LET V == g.vars
      atom_feas == AtomConv(m.n_conv - 1, f.atom_feas, f.bond_feas, f.bond_weights_ag,
                            g.batched_atom_graph, g.directed2undirected, V)
  IN  [f EXCEPT
         !.atom_feas = atom_feas,
         !.energy = Energy(m, g, atom_feas, f.atoms_per_graph),
         !.trace = @ \o <<<<"atom", m.n_conv - 1>>, <<"readout", m.n_conv - 1>>>>]

AlwaysOk(g, flags) ==
  (* no input is rejected *)
  TRUE

GradOk(g, flags) ==
  (* torch.autograd.grad raises for an input that does not require grad,   *)
  (* and for an input that is None                                         *)
  /\ flags.compute_force =>
       \A k \in 1 .. Len(g.atom_positions) : g.atom_positions[k].requires_grad
  /\ flags.compute_stress => \A k \in 1 .. Len(g.strains) : g.strains[k] # <<>>

Force(g, energy) ==
  LET total == DSum(energy, g.vars)
  IN  [k \in 1 .. Len(g.atom_positions) |->
         [a \in 1 .. Len(g.atom_positions[k].vars) |->
            (-1) * total.d[g.atom_positions[k].vars[a]]]]

FirstVolumeScale(volumes) ==
  (* every structure scaled by the volume of the first *)
  [k \in 1 .. Len(volumes) |-> [per_volume |-> volumes[1], times |-> GPa]]

StressScale(volumes) ==
  (* 1 / g.volumes * 160.21766208 *)
  [k \in 1 .. Len(volumes) |-> [per_volume |-> volumes[k], times |-> GPa]]

Stress(g, energy) ==
  LET total == DSum(energy, g.vars)
      grads == [k \in 1 .. Len(g.strains) |-> total.d[g.strains[k][1]]]
      scale == StressScale(g.volumes)
      n == IF Len(grads) < Len(scale) THEN Len(grads) ELSE Len(scale)
  IN  [k \in 1 .. n |->
         [grad |-> grads[k], per_volume |-> scale[k].per_volume,
          times |-> scale[k].times]]

DerivativesPerAtom(g, f, flags) ==
  (* force and stress taken from the energy per atom *)
  LET energy == [k \in 1 .. Len(f.energy) |->
                   DDiv(f.energy[k], f.atoms_per_graph[k])]
      p1 == IF flags.compute_force
            THEN Put(f.prediction, "f", Force(g, energy)) ELSE f.prediction
      p2 == IF flags.compute_stress
            THEN Put(p1, "s", Stress(g, energy)) ELSE p1
  IN  [f EXCEPT !.prediction = p2,
                !.trace = @ \o (IF flags.compute_force THEN <<<<"force", 0>>>> ELSE <<>>)
                            \o (IF flags.compute_stress THEN <<<<"stress", 0>>>> ELSE <<>>)]

Derivatives(g, f, flags) ==
  LET p1 == IF flags.compute_force
            THEN Put(f.prediction, "f", Force(g, f.energy)) ELSE f.prediction
      p2 == IF flags.compute_stress
            THEN Put(p1, "s", Stress(g, f.energy)) ELSE p1
  IN  [f EXCEPT !.prediction = p2,
                !.trace = @ \o (IF flags.compute_force THEN <<<<"force", 0>>>> ELSE <<>>)
                            \o (IF flags.compute_stress THEN <<<<"stress", 0>>>> ELSE <<>>)]

NormalizeByBatch(m, f) ==
  (* the division taken by the atom count of the whole batch *)
  LET energy == IF m.is_intensive
                THEN [k \in 1 .. Len(f.energy) |->
                        DDiv(f.energy[k], SumInt(f.atoms_per_graph))]
                ELSE f.energy
  IN  [f EXCEPT !.energy = energy,
                !.prediction = Put(@, "e", energy),
                !.trace = @ \o (IF m.is_intensive THEN <<<<"divide", 0>>>> ELSE <<>>)]

Normalize(m, f) ==
  LET energy == IF m.is_intensive
                THEN [k \in 1 .. Len(f.energy) |->
                        DDiv(f.energy[k], f.atoms_per_graph[k])]
                ELSE f.energy
  IN  [f EXCEPT !.energy = energy,
                !.prediction = Put(@, "e", energy),
                !.trace = @ \o (IF m.is_intensive THEN <<<<"divide", 0>>>> ELSE <<>>)]

NoComposition(m, graphs, prediction) ==
  (* the prediction as _compute returned it *)
  prediction

AddComposition(m, graphs, prediction) ==
  (* forward, line 289: prediction["e"] += comp_energy *)
  LET comp_energy == IF m.composition_model
                     THEN Atom_Ref(graphs, m.is_intensive)
                     ELSE [k \in 1 .. Len(graphs) |-> 0]
  IN  [prediction EXCEPT
         !["e"] = [k \in 1 .. Len(@) |->
                     [@[k] EXCEPT !.v = @ + comp_energy[k]]]]

EveryConvLayer(m, idx) ==
  (* the loop runs over all of atom_conv_layers *)
  idx < m.n_conv

HasInteriorStage(m, idx) ==
  (* enumerate(zip(atom_conv_layers[:-1], bond_conv_layers, angle_layers)) *)
  (* has an item idx                                                       *)
  idx < m.n_conv - 1

RECURSIVE MessagePassingLoop(_, _, _, _)
MessagePassingLoop(m, g, f0, flags) ==
  IF HasInteriorStage(m, f0.idx)
  THEN MessagePassingLoop(m, g, Eager(InteriorStage(m, g, f0, flags)), flags)
  ELSE f0

compute(m, g0, flags) ==
  (* CHGNet._compute from its first line to its return *)
  LET f1 == Eager(MessagePassingLoop(m, g0, Eager(Embed(g0)), flags))
      f2 == Eager(LastConvReadout(m, g0, f1, flags))
      f3 == Eager(Derivatives(g0, f2, flags))
  IN  Eager(Normalize(m, f3))

forward(m, graphs, task, return_atom_feas, return_crystal_feas) ==
  (* CHGNet.forward from its first line to its return *)
  LET flags == Flags(task, return_atom_feas, return_crystal_feas)
      g0 == Eager(from_graphs(graphs, flags.compute_stress))
  IN  Eager(AddComposition(m, graphs, compute(m, g0, flags).prediction))

---------------------------------------------------------------------------
(* CHGNet.predict_graph and CHGNet.forward as a state machine: one call of *)
(* predict_graph on a model built by CHGNet.__init__.                      *)

VARIABLES
  model,        \* the attributes __init__ sets
  args,         \* the arguments of the predict_graph call
  pc,           \* where the call stands
  n,            \* predict_graph: the index of the sub-batch
  predictions,  \* predict_graph: the list of result mappings
  batch,        \* forward: its argument graphs
  g,            \* forward: the BatchedGraph
  f,            \* _compute: its locals
  out,          \* what the call returned
  err,          \* the exception that ended the call, "" for none
  slices,       \* history: the argument of every forward call so far
  returned,     \* history: what every forward call so far returned
  split_args,   \* the arguments <<x, n>> of a CHGNet.split call
  ctor,         \* a CHGNet(...) call, the object it builds and its saved forms
  calc          \* a CHGNetCalculator.calculate call and the results it stores

vars == <<model, args, pc, n, predictions, batch, g, f, out, err, slices, returned, split_args, ctor, calc>>

Models ==
  [n_conv : 1 .. MaxConv, update_bond : BOOLEAN, update_angle : BOOLEAN,
   mlp_first : BOOLEAN, is_intensive : BOOLEAN, composition_model : BOOLEAN]

Calls ==
  {[graph |-> <<c>>, is_list |-> FALSE, task |-> t, batch_size |-> 1,
    return_atom_feas |-> FALSE, return_crystal_feas |-> FALSE] :
     c \in Catalog, t \in Tasks}
  \cup
  {[graph |-> l, is_list |-> TRUE, task |-> t, batch_size |-> b,
    return_atom_feas |-> FALSE, return_crystal_feas |-> FALSE] :
     l \in ListsUpTo(MaxGraphs), t \in Tasks, b \in 1 .. MaxBatch}

NoGraph == <<>>
NoFrame == <<>>

Init ==
  /\ model \in Models
  /\ args \in Calls
  /\ pc = "call"
  /\ n = 0
  /\ predictions = <<>>
  /\ batch = <<>>
  /\ g = NoGraph
  /\ f = NoFrame
  /\ out = <<>>
  /\ err = ""
  /\ slices = <<>>
  /\ returned = <<>>
  /\ split_args = <<>>
  /\ ctor = <<>>
  /\ calc = <<>>

CeilDiv(a, b) == (a + b - 1) \div b

FloorSteps ==
  (* a slice count that drops the last, partial slice *)
  Len(args.graph) \div args.batch_size

NSteps == CeilDiv(Len(args.graph), args.batch_size)

SubBatch(graph, batch_size, step) ==
  (* graph[batch_size * n : batch_size * (n + 1)] *)
  Slice(graph, batch_size * step, batch_size * (step + 1))

CallFlags == Flags(args.task, args.return_atom_feas, args.return_crystal_feas)

Detach(x) == x.v

DetachAll(t) == [i \in 1 .. Len(t) |-> Detach(t[i])]

SingleOut(prediction) ==
  (* predict_graph, lines 478-487 *)
  LET keys == DOMAIN prediction \cap {"e", "f", "s", "m", "atom_fea", "crystal_fea"}
  IN  [key \in keys |->
         CASE key = "e" -> Detach(prediction[key][1])
           [] key \in {"f", "s"} -> prediction[key][1]
           [] key \in {"m", "atom_fea"} -> DetachAll(prediction[key][1])
           [] OTHER -> DetachAll(prediction[key])]

SingleOutOk(prediction) ==
  (* pred.item() and assert len(pred) == 1 *)
  \A key \in DOMAIN prediction \cap {"e", "f", "s", "m", "atom_fea"} :
     Len(prediction[key]) = 1

ListRow(prediction, key, i) ==
  (* row i of a batched quantity after .cpu().detach().numpy() *)
  CASE key = "e" -> Detach(prediction[key][i])
    [] key \in {"f", "s"} -> prediction[key][i]
    [] OTHER -> DetachAll(prediction[key][i])

ListOut(preds, prediction, batch_size, step) ==
  (* predict_graph, lines 499-515: predictions[n * batch_size + i][key] = ... *)
  LET keys == DOMAIN prediction \cap {"e", "f", "s", "m", "atom_fea", "crystal_fea"}
      Row(key, i) == ListRow(prediction, key, i)
  IN  [p \in 1 .. Len(preds) |->
         LET i == p - step * batch_size
             mine == {key \in keys : i >= 1 /\ i <= Len(prediction[key])}
         IN  [key \in DOMAIN preds[p] \cup mine |->
                IF key \in mine THEN Row(key, i) ELSE preds[p][key]]]

PredictGraph ==
  /\ pc = "call"
  /\ IF args.is_list
     THEN /\ predictions' = Fill(Len(args.graph), EmptyDict)
          /\ IF NSteps = 0
             THEN /\ out' = predictions'
                  /\ pc' = "done"
                  /\ batch' = batch
             ELSE /\ batch' = SubBatch(args.graph, args.batch_size, 0)
                  /\ pc' = "forward"
                  /\ out' = out
     ELSE /\ batch' = args.graph
          /\ pc' = "forward"
          /\ UNCHANGED <<predictions, out>>
  /\ UNCHANGED <<model, args, n, g, f, err, slices, returned, split_args, ctor, calc>>

Forward ==
  (* forward, lines 262-278 *)
  /\ pc = "forward"
  /\ g' = from_graphs(batch, CallFlags.compute_stress)
  /\ slices' = Append(slices, batch)
  /\ pc' = "compute"
  /\ UNCHANGED <<model, args, n, predictions, batch, f, out, err, returned, split_args, ctor, calc>>

ComputeEmbed ==
  (* _compute, lines 315-327 *)
  /\ pc = "compute"
  /\ f' = Embed(g)
  /\ pc' = "stage"
  /\ UNCHANGED <<model, args, n, predictions, batch, g, out, err, slices, returned, split_args, ctor, calc>>

MessagePassing ==
  (* _compute, lines 330-371: one pass of the loop *)
  /\ pc = "stage"
  /\ HasInteriorStage(model, f.idx)
  /\ f' = InteriorStage(model, g, f, CallFlags)
  /\ UNCHANGED <<model, args, pc, n, predictions, batch, g, out, err, slices, returned, split_args, ctor, calc>>

LastConv ==
  (* _compute, lines 374-392 *)
  /\ pc = "stage"
  /\ ~HasInteriorStage(model, f.idx)
  /\ f' = LastConvReadout(model, g, f, CallFlags)
  /\ pc' = "deriv"
  /\ UNCHANGED <<model, args, n, predictions, batch, g, out, err, slices, returned, split_args, ctor, calc>>

Continued ==
  (* the failure is noted and the caller goes on with what the call left *)
  "collect"

OnError ==
  (* forward and predict_graph have no handler: an exception raised in   *)
  (* _compute leaves both and reaches the caller of predict_graph        *)
  "raised"

ComputeDerivatives ==
  (* _compute, lines 395-413 *)
  /\ pc = "deriv"
  /\ IF GradOk(g, CallFlags)
     THEN /\ f' = Derivatives(g, f, CallFlags)
          /\ pc' = "norm"
          /\ err' = err
     ELSE /\ err' = "RuntimeError"
          /\ pc' = OnError
          /\ f' = f
  /\ UNCHANGED <<model, args, n, predictions, batch, g, out, slices, returned, split_args, ctor, calc>>

ComputeReturn ==
  (* _compute, lines 416-420, and forward, lines 289-290 *)
  /\ pc = "norm"
  /\ f' = LET r == Normalize(model, f)
          IN  [r EXCEPT !.prediction = AddComposition(model, batch, @)]
  /\ returned' = Append(returned, f'.prediction)
  /\ pc' = "collect"
  /\ UNCHANGED <<model, args, n, predictions, batch, g, out, err, slices, split_args, ctor, calc>>

Collect ==
  (* predict_graph: lines 478-487 for a graph, 499-516 for a list *)
  /\ pc = "collect"
  /\ IF args.is_list
     THEN /\ predictions' = ListOut(predictions, f.prediction, args.batch_size, n)
          /\ n' = n + 1
          /\ err' = err
          /\ IF n + 1 < NSteps
             THEN /\ batch' = SubBatch(args.graph, args.batch_size, n + 1)
                  /\ pc' = "forward"
                  /\ out' = out
             ELSE /\ out' = predictions'
                  /\ pc' = "done"
                  /\ batch' = batch
     ELSE /\ IF SingleOutOk(f.prediction)
             THEN /\ out' = SingleOut(f.prediction)
                  /\ pc' = "done"
                  /\ err' = err
             ELSE /\ err' = "AssertionError"
                  /\ pc' = "raised"
                  /\ out' = out
          /\ UNCHANGED <<n, predictions, batch>>
  /\ UNCHANGED <<model, args, g, f, slices, returned, split_args, ctor, calc>>

RECURSIVE SplitLoop(_, _, _, _)
SplitLoop(x, counts, start, result) ==
  (* CHGNet.split, lines 528-530 *)
  IF counts = <<>> THEN [start |-> start, result |-> result]
  ELSE SplitLoop(x, Tail(counts), start + Head(counts),
                 Append(result, Slice(x, start, start + Head(counts))))

SplitCovers(start, x) ==
  (* a check that only asks the counts to reach the end of x *)
  start >= Len(x)

SplitAssert(start, x) == start = Len(x)

split(x, counts) ==
  (* CHGNet.split: the slices, or the AssertionError of line 531 *)
  LET r == SplitLoop(x, counts, 0, <<>>)
  IN  [raised |-> ~SplitAssert(r.start, x), result |-> r.result]

SplitCall ==
  /\ pc = "split"
  /\ LET r == split(split_args[1], split_args[2])
     IN  IF r.raised
         THEN /\ err' = "AssertionError"
              /\ pc' = "raised"
              /\ out' = out
         ELSE /\ out' = r.result
              /\ pc' = "done"
              /\ err' = err
  /\ UNCHANGED <<model, args, n, predictions, batch, g, f, slices, returned, split_args, ctor, calc>>

RECURSIVE SeqsUpTo(_, _)
SeqsUpTo(S, len) ==
  IF len = 0 THEN {<<>>}
  ELSE LET R == SeqsUpTo(S, len - 1)
       IN  R \cup {Append(l, c) : l \in {r \in R : Len(r) = len - 1}, c \in S}

InitSplit ==
  /\ model = [n_conv |-> 1, update_bond |-> TRUE, update_angle |-> FALSE,
              mlp_first |-> FALSE, is_intensive |-> TRUE,
              composition_model |-> FALSE]
  /\ args = <<>>
  /\ pc = "split"
  /\ n = 0
  /\ predictions = <<>>
  /\ batch = <<>>
  /\ g = NoGraph
  /\ f = NoFrame
  /\ out = <<>>
  /\ err = ""
  /\ slices = <<>>
  /\ returned = <<>>
  /\ split_args \in {<<x, c>> : x \in SeqsUpTo({7, 9}, MaxSplitLen),
                                 c \in SeqsUpTo(0 .. MaxSplitLen, MaxGraphs)}
  /\ ctor = <<>>
  /\ calc = <<>>

SpecSplit == InitSplit /\ [][SplitCall]_vars

Next ==
  \/ PredictGraph
  \/ Forward
  \/ ComputeEmbed
  \/ MessagePassing
  \/ LastConv
  \/ ComputeDerivatives
  \/ ComputeReturn
  \/ Collect

Spec == Init /\ [][Next]_vars

---------------------------------------------------------------------------
(* CHGNet.__init__, as_dict and from_dict: a model is built from keyword   *)
(* arguments, saved, and built again from what was saved.                  *)

None == "None"

Defaults ==
  (* the signature of CHGNet.__init__ *)
  [atom_fea_dim |-> 64, bond_fea_dim |-> 64, angle_fea_dim |-> 64,
   composition_model |-> None, num_radial |-> 9, num_angular |-> 9,
   n_conv |-> 4, atom_conv_hidden_dim |-> 64, update_bond |-> TRUE,
   bond_conv_hidden_dim |-> 64, update_angle |-> FALSE,
   angle_layer_hidden_dim |-> 0, conv_dropout |-> 0, read_out |-> "ave",
   mlp_hidden_dims |-> <<64, 64>>, mlp_dropout |-> 0, mlp_first |-> FALSE,
   is_intensive |-> TRUE, non_linearity |-> "silu", atom_graph_cutoff |-> 5,
   bond_graph_cutoff |-> 3, cutofff_coeff |-> 5, learnable_rbf |-> FALSE]

Named == DOMAIN Defaults

Locals(passed) ==
  (* the parameters of __init__ as a call with the keywords passed binds them *)
  [k \in Named |-> IF k \in DOMAIN passed THEN passed[k] ELSE Defaults[k]]

Kwargs(passed) ==
  (* **kwargs: the keywords that name no parameter *)
  [k \in DOMAIN passed \ Named |-> passed[k]]

Update(dict, other) ==
  (* dict.update(other) *)
  [k \in DOMAIN dict \cup DOMAIN other |->
     IF k \in DOMAIN other THEN other[k] ELSE dict[k]]

Pop(dict, key, default) ==
  (* dict.pop(key, default), the value *)
  IF key \in DOMAIN dict THEN dict[key] ELSE default

NamedOnly(locals, kwargs) ==
  (* the named parameters alone *)
  locals

ModelArgs(locals, kwargs) ==
  (* lines 80-86: the locals but self, __class__ and kwargs, then kwargs *)
  Update(locals, kwargs)

Trunc(a, b) ==
  (* int(a / b) *)
  IF a >= 0 THEN a \div b ELSE 0 - ((0 - a) \div b)

AnyWidth(num_angular) ==
  (* no check of the width *)
  TRUE

AngleWidthOk(num_angular) ==
  (* assert (num_angular - 1) % 2 == 0 *)
  (num_angular - 1) % 2 = 0

circular_harmonics_order(num_angular) == Trunc(num_angular - 1, 2)

ReadOutType(locals) ==
  (* lines 202-218 *)
  IF locals.mlp_first THEN "sum"
  ELSE IF locals.read_out \in {"attn", "weighted"} THEN "attn"
  ELSE "ave"

CHGNetInit(passed) ==
  (* CHGNet.__init__: the object, or the exception that ends it *)
  LET locals == Locals(passed)
      kwargs == Kwargs(passed)
      read_out_type == ReadOutType(locals)
  IN  IF ~AngleWidthOk(locals.num_angular)
      THEN [raised |-> "AssertionError", obj |-> <<>>]
      ELSE [raised |-> "",
            obj |->
              [model_args |-> ModelArgs(locals, kwargs),
               n_conv |-> locals.n_conv,
               is_intensive |-> locals.is_intensive,
               update_bond |-> locals.update_bond,
               update_angle |-> locals.update_angle,
               mlp_first |-> locals.mlp_first,
               composition_model |-> locals.composition_model # None,
               cutoff_coeff |-> Pop(kwargs, "cutoff_coeff", 6),
               fourier_order |-> circular_harmonics_order(locals.num_angular),
               conv_norm |-> Pop(kwargs, "conv_norm", None),
               gMLP_norm |-> Pop(kwargs, "gMLP_norm", "batch"),
               readout_norm |-> Pop(kwargs, "readout_norm", None),
               read_out_type |-> read_out_type,
               num_heads |-> IF read_out_type = "attn"
                             THEN Pop(kwargs, "num_heads", 3) ELSE None,
               final_mlp |-> IF Pop(kwargs, "final_mlp", "MLP") \in {"normal", "MLP"}
                             THEN "MLP" ELSE "GatedMLP"]]

state_dict(obj) ==
  (* the parameters, by what fixes their names and shapes *)
  [k \in {"atom_fea_dim", "bond_fea_dim", "angle_fea_dim", "num_radial",
          "num_angular", "atom_conv_hidden_dim", "bond_conv_hidden_dim",
          "angle_layer_hidden_dim", "mlp_hidden_dims", "learnable_rbf"} |->
     obj.model_args[k]]
  @@ [k \in {"n_conv", "update_bond", "update_angle", "composition_model",
             "conv_norm", "gMLP_norm", "readout_norm", "read_out_type",
             "num_heads", "final_mlp"} |-> obj[k]]

as_dict(obj) ==
  [state_dict |-> state_dict(obj), model_args |-> obj.model_args]

load_state_dict(obj, sd) ==
  (* strict loading: names and shapes must be this object's *)
  IF sd = state_dict(obj)
  THEN [raised |-> "", obj |-> obj]
  ELSE [raised |-> "RuntimeError", obj |-> <<>>]

from_dict(dict) ==
  IF "model_args" \notin DOMAIN dict
  THEN [raised |-> "KeyError", obj |-> <<>>]
  ELSE LET chgnet == CHGNetInit(dict.model_args)
       IN  IF chgnet.raised # "" THEN chgnet
           ELSE load_state_dict(chgnet.obj, dict.state_dict)

Options ==
  (* the keywords a call may pass: each one absent, {}, or given, {v} *)
  [num_angular : {{}} \cup {{w} : w \in 0 .. MaxAngular},
   read_out : {{}, {"attn"}, {"weighted"}, {"max"}},
   mlp_first : {{}, {TRUE}},
   n_conv : {{}, {1}, {2}},
   cutoff_coeff : {{}, {8}},
   num_heads : {{}, {2}},
   final_mlp : {{}, {"GatedMLP"}}]

Keywords(opts) ==
  [k \in {j \in DOMAIN opts : opts[j] # {}} |-> CHOOSE v \in opts[k] : TRUE]

SavedForms(obj) ==
  (* what a caller may hand to from_dict: what as_dict gave, the same without *)
  (* its configuration, and the same with another model's parameters          *)
  LET d == as_dict(obj)
  IN  {d,
       [state_dict |-> d.state_dict],
       [d EXCEPT !.state_dict = state_dict(CHGNetInit(<<>>).obj)]}

NewModel ==
  (* a call of CHGNet with the keywords passed *)
  /\ pc = "new"
  /\ LET r == CHGNetInit(ctor.passed)
     IN  /\ ctor' = [ctor EXCEPT !.obj = r.obj]
         /\ pc' = IF r.raised = "" THEN "built" ELSE "raised"
         /\ err' = r.raised
  /\ UNCHANGED <<model, args, n, predictions, batch, g, f, out, slices,
                 returned, split_args, calc>>

AsDict ==
  (* d = m.as_dict() *)
  /\ pc = "built"
  /\ \E d \in SavedForms(ctor.obj) :
       ctor' = [ctor EXCEPT !.saved = as_dict(ctor.obj), !.given = d]
  /\ pc' = "saved"
  /\ UNCHANGED <<model, args, n, predictions, batch, g, f, out, err, slices,
                 returned, split_args, calc>>

FromDict ==
  (* CHGNet.from_dict(d) *)
  /\ pc = "saved"
  /\ LET r == from_dict(ctor.given)
     IN  /\ ctor' = [ctor EXCEPT !.loaded = r.obj]
         /\ pc' = IF r.raised = "" THEN "loaded" ELSE "raised"
         /\ err' = r.raised
  /\ UNCHANGED <<model, args, n, predictions, batch, g, f, out, slices,
                 returned, split_args, calc>>

InitCtor ==
  /\ model = [n_conv |-> 1, update_bond |-> TRUE, update_angle |-> FALSE,
              mlp_first |-> FALSE, is_intensive |-> TRUE,
              composition_model |-> FALSE]
  /\ args = <<>>
  /\ calc = <<>>
  /\ pc = "new"
  /\ n = 0
  /\ predictions = <<>>
  /\ batch = <<>>
  /\ g = NoGraph
  /\ f = NoFrame
  /\ out = <<>>
  /\ err = ""
  /\ slices = <<>>
  /\ returned = <<>>
  /\ split_args = <<>>
  /\ ctor \in {[passed |-> Keywords(o), obj |-> <<>>, saved |-> <<>>,
                given |-> <<>>, loaded |-> <<>>] : o \in Options}

NextCtor ==
  \/ NewModel
  \/ AsDict
  \/ FromDict

SpecCtor == InitCtor /\ [][NextCtor]_vars

---------------------------------------------------------------------------
(* Calls with the options the calls above hold fixed: a model as the       *)
(* constructor leaves it, a structure whose coordinates do not track       *)
(* gradients, a task outside the documented ones, return_atom_feas.        *)

Untracked(graph) == [graph EXCEPT !.requires_grad = FALSE]

OptionKeywords ==
  {Keywords(o) : o \in [n_conv : {{c} : c \in 1 .. MaxConv},
                         read_out : {{}, {"max"}},
                         composition_model : {{}, {"MPtrj"}},
                         is_intensive : {{}, {FALSE}}]}

OptionGraphs == {Chain, Untracked(Chain)}

OptionTasks == Tasks \cup {"x"}

OptionCalls ==
  {[graph |-> <<c>>, is_list |-> FALSE, task |-> t, batch_size |-> 1,
    return_atom_feas |-> a, return_crystal_feas |-> FALSE] :
     c \in OptionGraphs, t \in OptionTasks, a \in BOOLEAN}
  \cup
  {[graph |-> l, is_list |-> TRUE, task |-> t, batch_size |-> b,
    return_atom_feas |-> a, return_crystal_feas |-> FALSE] :
     l \in SeqsUpTo(OptionGraphs, MaxGraphs), t \in OptionTasks,
     b \in 1 .. MaxBatch, a \in BOOLEAN}

InitOptions ==
  /\ ctor \in {[passed |-> kw, obj |-> CHGNetInit(kw).obj, saved |-> <<>>,
                given |-> <<>>, loaded |-> <<>>] :
                 kw \in {k \in OptionKeywords : CHGNetInit(k).raised = ""}}
  /\ model = ctor.obj
  /\ args \in OptionCalls
  /\ calc = <<>>
  /\ pc = "call"
  /\ n = 0
  /\ predictions = <<>>
  /\ batch = <<>>
  /\ g = NoGraph
  /\ f = NoFrame
  /\ out = <<>>
  /\ err = ""
  /\ slices = <<>>
  /\ returned = <<>>
  /\ split_args = <<>>

SpecOptions == InitOptions /\ [][Next]_vars

---------------------------------------------------------------------------
(* Calls on lists that mix structures with angles of different values and  *)
(* structures with none.                                                   *)

AngleGraphs == {IsolatedAtom, Chain, Fork}

AngleCalls ==
  {[graph |-> l, is_list |-> TRUE, task |-> t, batch_size |-> b,
    return_atom_feas |-> FALSE, return_crystal_feas |-> FALSE] :
     l \in SeqsUpTo(AngleGraphs, MaxGraphs), t \in {"e", "efs"},
     b \in 1 .. MaxBatch}

InitAngles ==
  /\ model \in [n_conv : {2}, update_bond : {TRUE}, update_angle : BOOLEAN,
                mlp_first : {FALSE}, is_intensive : {TRUE},
                composition_model : {FALSE}]
  /\ args \in AngleCalls
  /\ pc = "call"
  /\ n = 0
  /\ predictions = <<>>
  /\ batch = <<>>
  /\ g = NoGraph
  /\ f = NoFrame
  /\ out = <<>>
  /\ err = ""
  /\ slices = <<>>
  /\ returned = <<>>
  /\ split_args = <<>>
  /\ ctor = <<>>
  /\ calc = <<>>

SpecAngles == InitAngles /\ [][Next]_vars

---------------------------------------------------------------------------
(* CHGNetCalculator.calculate (dynamics.py): the structure is converted to *)
(* a graph, predict_graph is called on it, and the prediction is stored in *)
(* the calculator's results.                                               *)

stress_weight == "1/160.21766208"

all_properties == {"energy", "forces", "stress", "magmoms", "free_energy"}

DesiredProperties == {{}, {"energy"}, {"forces", "stress"}, all_properties}

Structures == {IsolatedAtom, LongPair, Chain, Fork}

Factor(m, graph) ==
  (* 1 if not self.model.is_intensive else structure.composition.num_atoms *)
  IF ~m.is_intensive THEN 1 ELSE Len(graph.atomic_number)

ResultKeys == {"e", "f", "m", "s"}

Results(m, graph, model_prediction) ==
  (* the keywords of self.results.update(...) *)
  [energy |-> model_prediction["e"] * Factor(m, graph),
   forces |-> model_prediction["f"],
   free_energy |-> model_prediction["e"] * Factor(m, graph),
   magmoms |-> model_prediction["m"],
   stress |-> [value |-> model_prediction["s"], times |-> stress_weight]]

Calculate ==
  (* calculate, lines 94-105: up to the call of predict_graph *)
  /\ pc = "calculate"
  /\ args' = [graph |-> <<calc.atoms>>, is_list |-> FALSE, task |-> "efsm",
              batch_size |-> 100, return_atom_feas |-> FALSE,
              return_crystal_feas |-> FALSE]
  /\ calc' = [calc EXCEPT !.desired_properties =
                IF @ = {} THEN all_properties ELSE @]
  /\ pc' = "call"
  /\ UNCHANGED <<model, n, predictions, batch, g, f, out, err, slices,
                 returned, split_args, ctor>>

ConvertResult ==
  (* calculate, lines 107-117: predict_graph has returned *)
  /\ pc = "done"
  /\ calc # <<>>
  /\ IF ResultKeys \subseteq DOMAIN out
     THEN /\ calc' = [calc EXCEPT !.results = Results(model, calc.atoms, out)]
          /\ pc' = "calculated"
          /\ err' = err
     ELSE /\ err' = "KeyError"
          /\ pc' = "raised"
          /\ calc' = calc
  /\ UNCHANGED <<model, args, n, predictions, batch, g, f, out, slices,
                 returned, split_args, ctor>>

InitCalc ==
  /\ model \in [n_conv : 1 .. MaxConv, update_bond : {TRUE},
                update_angle : {FALSE}, mlp_first : BOOLEAN,
                is_intensive : BOOLEAN, composition_model : BOOLEAN]
  /\ calc \in [atoms : Structures, desired_properties : DesiredProperties,
               results : {<<>>}]
  /\ args = <<>>
  /\ pc = "calculate"
  /\ n = 0
  /\ predictions = <<>>
  /\ batch = <<>>
  /\ g = NoGraph
  /\ f = NoFrame
  /\ out = <<>>
  /\ err = ""
  /\ slices = <<>>
  /\ returned = <<>>
  /\ split_args = <<>>
  /\ ctor = <<>>

NextCalc ==
  \/ Calculate
  \/ Next
  \/ ConvertResult

SpecCalc == InitCalc /\ [][NextCalc]_vars

---------------------------------------------------------------------------
(* Properties. *)

OutputKeys == {"e", "f", "s", "m", "atom_fea", "crystal_fea"}

NAtoms(graph) == Len(graph.atomic_number)

AtomOffset(graphs, k) ==
  (* the number of atoms of the first k structures *)
  SumInt([i \in 1 .. k |-> NAtoms(graphs[i])])

DirectedOffset(graphs, k) ==
  SumInt([i \in 1 .. k |-> Len(graphs[i].atom_graph)])

Batched == pc \in {"compute", "stage", "deriv", "norm", "collect"}

Computing == pc \in {"stage", "deriv", "norm", "collect"}

ListDone == pc = "done" /\ args # <<>> /\ args.is_list

SingleDone == pc = "done" /\ args # <<>> /\ ~args.is_list

(* C1: predict_graph on a list of N graphs with batch size B calls forward *)
(* on ceil(N / B) consecutive slices of 1 to B graphs, the slices in order *)
(* are the input list, and the list returned has N mappings, the one at    *)
(* position B * s + r being row r of what forward returns for slice s,     *)
(* whose graph r is input graph B * s + r.                                 *)
C1_SubBatches ==
  ListDone =>
    LET N == Len(args.graph)
        B == args.batch_size
    IN  /\ Len(slices) = CeilDiv(N, B)
        /\ \A s \in 1 .. Len(slices) : Len(slices[s]) >= 1 /\ Len(slices[s]) <= B
        /\ Cat(slices) = args.graph
        /\ Len(out) = N
        /\ Len(returned) = Len(slices)
        /\ \A s \in 1 .. Len(slices) :
             \A row \in 1 .. Len(slices[s]) :
                LET i == B * (s - 1) + row
                IN  /\ args.graph[i] = slices[s][row]
                    /\ DOMAIN out[i] = DOMAIN returned[s] \cap OutputKeys
                    /\ \A key \in DOMAIN out[i] :
                         out[i][key] = ListRow(returned[s], key, row)

C1_TwoSlices ==
  /\ ListDone
  /\ Len(slices) = 2
  /\ args.graph = <<LongPair, Chain>>
  /\ "f" \in DOMAIN out[2]

ExpectedKeys(task) ==
  {"e"} \cup (IF HasChar(task, "f") THEN {"f"} ELSE {})
        \cup (IF HasChar(task, "s") THEN {"s"} ELSE {})
        \cup (IF HasChar(task, "m") THEN {"m"} ELSE {})

(* C2: for every task and every n_conv >= 1 the mapping the single-        *)
(* structure predict returns has exactly the keys the task asks for: e     *)
(* always, f, s, m if and only if the task holds the letter.               *)
C2_ExactKeys ==
  SingleDone => DOMAIN out = ExpectedKeys(args.task)

PredictSingle(m, graph, task) ==
  SingleOut(forward(m, <<graph>>, task, FALSE, FALSE))

(* C3: batching equivalence: every mapping the batch predict returns is    *)
(* the mapping the single-structure predict returns for that graph alone.  *)
C3_BatchingEquivalence ==
  ListDone =>
    \A i \in 1 .. Len(args.graph) :
       out[i] = PredictSingle(model, args.graph[i], args.task)

(* C4: in the batched graph both endpoints of every atom_graph row that    *)
(* structure k contributed lie in k's index range [atoms before k, atoms   *)
(* before k + atoms of k), atom_owners is k exactly on that range, and no  *)
(* batched bond joins atoms of two owners.                                 *)
C4_OwnRange ==
  Batched =>
    /\ \A k \in 1 .. Len(batch) :
         LET lo == AtomOffset(batch, k - 1)
             hi == AtomOffset(batch, k)
         IN  /\ \A j \in 1 .. Len(batch[k].atom_graph) :
                  LET row == g.batched_atom_graph[DirectedOffset(batch, k - 1) + j]
                  IN  /\ lo <= row[1] /\ row[1] < hi
                      /\ lo <= row[2] /\ row[2] < hi
             /\ \A a \in Indices(g.atom_owners) :
                  (At(g.atom_owners, a) = k - 1) <=> (lo <= a /\ a < hi)
    /\ Len(g.batched_atom_graph) = DirectedOffset(batch, Len(batch))
    /\ \A j \in 1 .. Len(g.batched_atom_graph) :
         At(g.atom_owners, g.batched_atom_graph[j][1])
           = At(g.atom_owners, g.batched_atom_graph[j][2])

C4_SecondHasBonds ==
  /\ Batched
  /\ Len(batch) = 2
  /\ Len(batch[2].atom_graph) > 0
  /\ g.batched_atom_graph[Len(g.batched_atom_graph)][1] >= NAtoms(batch[1])

(* C5: the counts of the owners in atom_owners sum to the length of the    *)
(* batched atom tensor; the slices of a per-atom tensor are contiguous, in *)
(* input order, slice k as long as structure k has atoms; concatenated     *)
(* they are the tensor again; CHGNet.split on the same counts gives them.  *)
C5_SplitReconstruction ==
  (Computing /\ "m" \in DOMAIN f.prediction) =>
    LET m == f.prediction["m"]
        r == split(f.magmom, f.atoms_per_graph)
    IN  /\ SumInt(f.atoms_per_graph) = Len(f.atom_feas)
        /\ Len(f.magmom) = Len(f.atom_feas)
        /\ Len(m) = Len(batch)
        /\ \A k \in 1 .. Len(batch) :
             /\ f.atoms_per_graph[k] = NAtoms(batch[k])
             /\ m[k] = Slice(f.magmom, AtomOffset(batch, k - 1), AtomOffset(batch, k))
        /\ Cat(m) = f.magmom
        /\ ~r.raised
        /\ r.result = m

C5_TwoStructuresSplit ==
  /\ Computing
  /\ "m" \in DOMAIN f.prediction
  /\ batch = <<IsolatedAtom, Chain>>
  /\ Len(f.prediction["m"][2]) = 2

(* C6: CHGNet.split(x, n) ends in an AssertionError and returns nothing    *)
(* whenever the counts in n do not sum to len(x), be the sum smaller or    *)
(* larger; it returns its slices only when they sum to len(x).             *)
C6_SplitMismatchRaises ==
  (pc # "split" /\ split_args # <<>>) =>
    LET x == split_args[1]
        counts == split_args[2]
    IN  IF SumInt(counts) # Len(x)
        THEN pc = "raised" /\ err = "AssertionError" /\ out = <<>>
        ELSE pc = "done" /\ err = "" /\ Cat(out) = x /\ Len(out) = Len(counts)

C6_TooLargeRaised ==
  /\ pc = "raised"
  /\ split_args # <<>>
  /\ SumInt(split_args[2]) > Len(split_args[1])
  /\ Len(split_args[1]) > 0

NoAngles(graphs) == \A k \in 1 .. Len(graphs) : Len(graphs[k].bond_graph) = 0

Ran(kind) == {f.trace[j][2] : j \in {i \in 1 .. Len(f.trace) : f.trace[i][1] = kind}}

(* C7: when no structure of the batch has an angle, from_graphs returns    *)
(* angle_bases and batched_bond_graph as zero-length tensors, forward      *)
(* raises nothing, no interior stage runs the bond or the angle update,    *)
(* and every atom update 0 .. n_conv - 1 and the readout have run by the   *)
(* time forward returns.                                                   *)
C7_NoAngleBatch ==
  (Batched /\ NoAngles(batch)) =>
    /\ g.angle_bases = <<>>
    /\ g.batched_bond_graph = <<>>
    /\ err = ""
    /\ Computing =>
         /\ Ran("bond") = {}
         /\ Ran("angle") = {}
    /\ pc = "stage" => Ran("atom") = 0 .. (f.idx - 1)
    /\ pc \in {"deriv", "norm", "collect"} =>
         /\ Ran("atom") = 0 .. (model.n_conv - 1)
         /\ Ran("readout") # {}
    /\ pc = "collect" =>
         /\ "e" \in DOMAIN f.prediction
         /\ Len(f.prediction["e"]) = Len(batch)

C7_IsolatedAtomDone ==
  /\ pc = "collect"
  /\ batch = <<IsolatedAtom>>
  /\ model.update_bond /\ model.update_angle
  /\ model.n_conv = 3
  /\ args.task = "efsm"

Extensive(m) == [m EXCEPT !.is_intensive = FALSE]

(* C8: with no composition model, the energy an intensive model returns    *)
(* for structure k times the atom count of k is the energy the extensive   *)
(* model with the same weights returns for the same batch, in both pooling *)
(* orders.                                                                 *)
C8_IntensiveScaling ==
  (pc = "collect" /\ model.is_intensive /\ ~model.composition_model) =>
    LET ext == forward(Extensive(model), batch, args.task,
                       args.return_atom_feas, args.return_crystal_feas)
    IN  /\ Len(f.prediction["e"]) = Len(batch)
        /\ \A k \in 1 .. Len(batch) :
             f.prediction["e"][k].v * NAtoms(batch[k]) = ext["e"][k].v

C8_IntensivePair ==
  /\ pc = "collect"
  /\ model.is_intensive /\ ~model.composition_model
  /\ model.mlp_first
  /\ batch = <<IsolatedAtom, Chain>>
  /\ f.prediction["e"][2].v # 0

(* C9: the stress returned for structure k is the gradient of the summed   *)
(* energy with respect to k's own strain variable, over k's own volume     *)
(* (the determinant of its lattice), times 160.21766208.                   *)
C9_StressOwnVolume ==
  (pc = "norm" /\ "s" \in DOMAIN f.prediction) =>
    LET total == DSum(f.energy, g.vars)
        s == f.prediction["s"]
    IN  /\ Len(s) = Len(batch)
        /\ \A k \in 1 .. Len(batch) :
             s[k] = [grad |-> total.d[StrainVar(k - 1)],
                     per_volume |-> batch[k].lattice,
                     times |-> "160.21766208"]

C9_TwoVolumes ==
  /\ pc = "norm"
  /\ "s" \in DOMAIN f.prediction
  /\ batch = <<Chain, LongPair>>
  /\ f.prediction["s"][1].grad # 0
  /\ f.prediction["s"][2].grad # 0

Built == pc \in {"built", "saved", "loaded"} \/ (pc = "raised" /\ ctor.saved # <<>>)

Width == Locals(ctor.passed).num_angular

(* C11: a call with an even angular width ends at construction in an      *)
(* AssertionError and builds no object; a call with an odd width 2k+1 is  *)
(* accepted and its angle encoder expands to order k.                     *)
C11_OddAngularWidth ==
  pc # "new" =>
    /\ Width % 2 = 0 =>
         pc = "raised" /\ err = "AssertionError" /\ ctor.obj = <<>>
    /\ Width % 2 = 1 =>
         Built /\ 2 * ctor.obj.fourier_order + 1 = Width

C11_EvenRejected ==
  /\ pc = "raised"
  /\ ctor.obj = <<>>
  /\ "num_angular" \in DOMAIN ctor.passed
  /\ ctor.passed.num_angular = 2

Saved == pc \in {"saved", "loaded"} \/ (pc = "raised" /\ ctor.obj # <<>>)

(* C13: what as_dict saves holds every argument of the constructor call,  *)
(* the named ones (passed or defaulted) and the extra keywords, with the  *)
(* parameters; from_dict of it builds a model with the same stored        *)
(* configuration and the same architecture; from_dict of a dictionary     *)
(* with no model_args ends in a KeyError and builds nothing.              *)
C13_PersistenceRoundTrip ==
  /\ Saved =>
       /\ DOMAIN ctor.saved = {"state_dict", "model_args"}
       /\ Named \subseteq DOMAIN ctor.saved.model_args
       /\ \A k \in DOMAIN ctor.passed :
            /\ k \in DOMAIN ctor.saved.model_args
            /\ ctor.saved.model_args[k] = ctor.passed[k]
       /\ ctor.saved.state_dict = state_dict(ctor.obj)
  /\ (Saved /\ pc # "saved") =>
       /\ ctor.given = ctor.saved =>
            /\ pc = "loaded"
            /\ ctor.loaded.model_args = ctor.obj.model_args
            /\ ctor.loaded = ctor.obj
       /\ "model_args" \notin DOMAIN ctor.given =>
            pc = "raised" /\ err = "KeyError" /\ ctor.loaded = <<>>

C13_ExtrasReloaded ==
  /\ pc = "loaded"
  /\ {"cutoff_coeff", "num_heads", "final_mlp", "read_out"} \subseteq DOMAIN ctor.passed
  /\ ctor.loaded.cutoff_coeff = 8
  /\ ctor.loaded.num_heads = 2
  /\ ctor.loaded.final_mlp = "GatedMLP"

PoolingNames == {"ave", "attn", "weighted"}

(* C12: no model is built from a read_out outside the supported pooling   *)
(* names, and a call whose task is outside e, ef, em, efs, efsm ends in   *)
(* an error before it batches anything.                                   *)
C12_InvalidSelectorsFail ==
  /\ Locals(ctor.passed).read_out \in PoolingNames
  /\ (args.task \notin Tasks /\ pc # "call") => (pc = "raised" /\ slices = <<>>)

UntrackedInBatch == \E k \in 1 .. Len(batch) : ~batch[k].requires_grad

ForceOnly == CallFlags.compute_force /\ ~CallFlags.compute_stress

(* C14: a forward call that asks for force without stress on a batch with *)
(* a structure whose coordinates do not track gradients ends in a         *)
(* RuntimeError at the derivative step and returns nothing; the same for  *)
(* stress with a missing strain variable; every forward call that does    *)
(* return has a force entry per structure, taken from tracked positions,  *)
(* when force was asked, and a stress entry per structure, taken from a   *)
(* strain variable, when stress was asked.                                *)
C14_UntrackedGradientFails ==
  /\ (Computing /\ ForceOnly /\ UntrackedInBatch) =>
       pc \in {"stage", "deriv"}
  /\ (Computing /\ CallFlags.compute_stress
        /\ \E k \in 1 .. Len(g.strains) : g.strains[k] = <<>>) =>
       pc \in {"stage", "deriv"}
  /\ (pc = "raised" /\ err = "RuntimeError") =>
       /\ ~GradOk(g, CallFlags)
       /\ Len(returned) = Len(slices) - 1
       /\ out = <<>>
  /\ pc \in {"norm", "collect"} =>
       /\ CallFlags.compute_force =>
            /\ "f" \in DOMAIN f.prediction
            /\ Len(f.prediction["f"]) = Len(batch)
            /\ \A k \in 1 .. Len(batch) : g.atom_positions[k].requires_grad
       /\ CallFlags.compute_stress =>
            /\ "s" \in DOMAIN f.prediction
            /\ Len(f.prediction["s"]) = Len(batch)
            /\ \A k \in 1 .. Len(batch) : g.strains[k] # <<>>

C14_ForceOnUntrackedRaised ==
  /\ pc = "raised"
  /\ err = "RuntimeError"
  /\ ForceOnly
  /\ UntrackedInBatch
  /\ "f" \notin DOMAIN f.prediction

(* C15: a forward call that fails returns no prediction mapping, and the  *)
(* predict call it belongs to ends there with the error: the caller gets  *)
(* no result, not even the rows that earlier sub-batches had filled, and  *)
(* nothing runs after the failure.                                        *)
C15_NoPartialResult ==
  /\ [](err # "" =>
          /\ pc = "raised"
          /\ out = <<>>
          /\ Len(returned) < Len(slices)
          /\ Len(returned) = n)
  /\ [][pc # "raised"]_vars

C15_LaterSubBatchFailed ==
  /\ pc = "raised"
  /\ args.is_list
  /\ n = 1
  /\ Len(slices) = 2
  /\ "e" \in DOMAIN predictions[1]
  /\ out = <<>>

Stages(kind) ==
  (* the layer indices of the updates of one kind, in the order they ran *)
  LET hits == SelectSeq(f.trace, LAMBDA e : e[1] = kind)
  IN  [j \in 1 .. Len(hits) |-> hits[j][2]]

UpTo(k) == [j \in 1 .. k |-> j - 1]

(* C16: in one forward call the batcher has finished before any layer     *)
(* runs; the interior stages run in increasing layer index and there are  *)
(* exactly n_conv - 1 of them; then one final stage runs, which is an     *)
(* atom update only, on the bond features the last interior stage left;   *)
(* the atom updates of the call are the n_conv layers 0 .. n_conv - 1,    *)
(* each once.                                                             *)
C16_StageSchedule ==
  /\ [](Computing =>
          /\ g # NoGraph
          /\ Len(g.atom_owners) = AtomOffset(batch, Len(batch))
          /\ pc = "stage" =>
               /\ f.idx <= model.n_conv - 1
               /\ Stages("atom") = UpTo(f.idx)
          /\ pc \in {"deriv", "norm", "collect"} =>
               /\ f.idx = model.n_conv - 1
               /\ Stages("atom") = UpTo(model.n_conv)
               /\ Len(Stages("readout")) = 1
          /\ \A i \in Ran("bond") \cup Ran("angle") : i < model.n_conv - 1
          /\ Len(Stages("bond")) <= model.n_conv - 1
          /\ Len(Stages("angle")) <= model.n_conv - 1)
  /\ [][(pc = "stage" /\ pc' = "deriv") =>
          /\ f.idx = model.n_conv - 1
          /\ f'.atom_feas = AtomConv(model.n_conv - 1, f.atom_feas, f.bond_feas,
                                     f.bond_weights_ag, g.batched_atom_graph,
                                     g.directed2undirected, g.vars)
          /\ f'.bond_feas = f.bond_feas
          /\ f'.angle_feas = f.angle_feas
          /\ f'.trace = f.trace \o <<<<"atom", model.n_conv - 1>>,
                                     <<"readout", model.n_conv - 1>>>>]_vars
  /\ [][(pc = "stage" /\ pc' = "stage") =>
          /\ f.idx < model.n_conv - 1
          /\ f'.idx = f.idx + 1
          /\ f'.trace[Len(f.trace) + 1] = <<"atom", f.idx>>]_vars

C16_ThreePasses ==
  /\ pc = "deriv"
  /\ model.n_conv = 3
  /\ model.update_bond /\ model.update_angle
  /\ batch = <<Chain>>
  /\ Stages("atom") = <<0, 1, 2>>
  /\ Stages("bond") = <<0, 1>>

BondRuns == model.update_bond /\ Len(g.angle_bases) # 0

AngleRuns == model.update_angle /\ BondRuns

InteriorStep == pc = "stage" /\ pc' = "stage"

(* C17: an interior stage runs the atom update, then the bond update if   *)
(* and only if bond updates are enabled and the batch has an angle, then  *)
(* the angle update if and only if angle updates are enabled and the bond *)
(* update ran in this stage, each on what the one before it produced; a   *)
(* model with angle updates but no bond updates never changes the angle   *)
(* features.                                                              *)
C17_StageGates ==
  /\ [][InteriorStep =>
          LET idx == f.idx
              ran == SubSeq(f'.trace, Len(f.trace) + 1, Len(f'.trace))
              updates == SelectSeq(ran, LAMBDA e : e[1] # "side")
          IN  /\ updates = <<<<"atom", idx>>>>
                            \o (IF BondRuns THEN <<<<"bond", idx>>>> ELSE <<>>)
                            \o (IF AngleRuns THEN <<<<"angle", idx>>>> ELSE <<>>)
              /\ f'.atom_feas = AtomConv(idx, f.atom_feas, f.bond_feas,
                                         f.bond_weights_ag, g.batched_atom_graph,
                                         g.directed2undirected, g.vars)
              /\ f'.bond_feas = IF BondRuns
                                THEN BondConv(idx, f'.atom_feas, f.bond_feas,
                                              f.bond_weights_bg, f.angle_feas,
                                              g.batched_bond_graph, g.vars)
                                ELSE f.bond_feas
              /\ f'.angle_feas = IF AngleRuns
                                 THEN AngleUpdate(idx, f'.atom_feas, f'.bond_feas,
                                                  f.angle_feas, g.batched_bond_graph,
                                                  g.vars)
                                 ELSE f.angle_feas]_vars
  /\ []((Computing /\ model.update_angle /\ ~model.update_bond) =>
          /\ Ran("angle") = {}
          /\ Ran("bond") = {}
          /\ f.angle_feas = [r \in 1 .. Len(g.angle_bases) |->
                               angle_embedding(g.angle_bases[r], g.vars)])

C17_AngleGateClosed ==
  /\ pc = "deriv"
  /\ model.update_angle /\ ~model.update_bond
  /\ model.n_conv = 3
  /\ Len(g.angle_bases) > 0
  /\ Ran("angle") = {}
  /\ Ran("atom") = {0, 1, 2}

SideCount == Len(Stages("side"))

AfterStages == pc \in {"deriv", "norm", "collect"}

FromGraphsReturned ==
  (* forward holds the batched graph and has not yet entered _compute *)
  pc = "compute"

UndirectedOffset(graphs, k) ==
  (* the number of undirected bonds of the first k structures *)
  SumInt([i \in 1 .. k |-> Len(graphs[i].undirected2directed)])

AngleOffset(graphs, k) ==
  (* the number of bond-graph rows of the first k structures *)
  SumInt([i \in 1 .. k |-> Len(graphs[i].bond_graph)])

(* C19: for every structure k of the batch, its entries of the batched    *)
(* directed2undirected and the two bond fields of its batched bond-graph  *)
(* rows are the structure's own undirected-bond indices plus the number   *)
(* of undirected bonds of the structures before k, and the atom field is  *)
(* the structure's own atom index plus the number of atoms before k; each *)
(* lies in k's own range of undirected bonds or atoms and below the       *)
(* batch totals.                                                          *)
C19_BondIndexOffsets ==
  FromGraphsReturned =>
    /\ Len(g.directed2undirected) = DirectedOffset(batch, Len(batch))
    /\ Len(g.batched_bond_graph) = AngleOffset(batch, Len(batch))
    /\ Len(g.bond_bases_ag) = UndirectedOffset(batch, Len(batch))
    /\ \A k \in 1 .. Len(batch) :
         LET alo == AtomOffset(batch, k - 1)
             ahi == AtomOffset(batch, k)
             ulo == UndirectedOffset(batch, k - 1)
             uhi == UndirectedOffset(batch, k)
         IN  /\ \A j \in 1 .. Len(batch[k].directed2undirected) :
                  LET u == g.directed2undirected[DirectedOffset(batch, k - 1) + j]
                  IN  /\ u = batch[k].directed2undirected[j] + ulo
                      /\ ulo <= u /\ u < uhi
                      /\ u < Len(g.bond_bases_ag)
             /\ \A r \in 1 .. Len(batch[k].bond_graph) :
                  LET row == g.batched_bond_graph[AngleOffset(batch, k - 1) + r]
                      own == batch[k].bond_graph[r]
                  IN  /\ row = <<own[1] + alo, own[2] + ulo, own[4] + ulo>>
                      /\ alo <= row[1] /\ row[1] < ahi
                      /\ ulo <= row[2] /\ row[2] < uhi
                      /\ ulo <= row[3] /\ row[3] < uhi
                      /\ row[1] < Len(g.atom_owners)
                      /\ row[2] < Len(g.bond_bases_ag)
                      /\ row[3] < Len(g.bond_bases_ag)

C19_OffsetsDiffer ==
  /\ FromGraphsReturned
  /\ batch = <<LongPair, Chain>>
  /\ g.batched_bond_graph[1] = <<2, 1, 2>>
  /\ g.directed2undirected = <<0, 0, 1, 2, 1, 2>>

IsStrainVar(w) == w[1] = "s"

(* C20: the batched graph has one volume and one strain slot per input    *)
(* structure, in input order, with stress or without; the volume is the   *)
(* determinant of the structure's lattice, strained by a strain of zero   *)
(* when stress is asked; the strain slot is the structure's own gradient  *)
(* variable when stress is asked, and is empty, with no strain variable   *)
(* in the batch, when it is not.                                          *)
C20_VolumesAndStrains ==
  FromGraphsReturned =>
    /\ Len(g.volumes) = Len(batch)
    /\ Len(g.strains) = Len(batch)
    /\ \A k \in 1 .. Len(batch) :
         /\ g.volumes[k] = batch[k].lattice
         /\ IF CallFlags.compute_stress
            THEN /\ g.strains[k] = <<StrainVar(k - 1)>>
                 /\ StrainVar(k - 1) \in g.vars
                 /\ g.atom_positions[k].requires_grad
            ELSE g.strains[k] = <<>>
    /\ {w \in g.vars : IsStrainVar(w)}
         = (IF CallFlags.compute_stress
            THEN {StrainVar(k - 1) : k \in 1 .. Len(batch)} ELSE {})

C20_NoStressTwoVolumes ==
  /\ FromGraphsReturned
  /\ ~CallFlags.compute_stress
  /\ batch = <<LongPair, Chain>>
  /\ g.volumes = <<2, 1>>
  /\ g.strains = <<<<>>, <<>>>>

ForwardReturns == pc = "norm" /\ pc' = "collect"

(* C21, as stated: the energy an intensive model's forward returns is     *)
(* what the division by the atom count left; nothing is added to it or    *)
(* multiplied into it afterwards, with a composition model or without.    *)
C21_DivisionIsLast ==
  (pc = "collect" /\ model.is_intensive) => f.prediction["e"] = f.energy

(* C21, amended: the division by the structure's atom count is the last   *)
(* step _compute applies to the energy of an intensive model; forward     *)
(* then adds the composition model's energy of the structure when a       *)
(* composition model is attached, and nothing else is added to or         *)
(* multiplied into the energy it returns.                                 *)
C21_DivisionThenComposition ==
  /\ [][ForwardReturns =>
          /\ Len(f'.prediction["e"]) = Len(batch)
          /\ \A k \in 1 .. Len(batch) :
               LET q == IF model.is_intensive
                        THEN DDiv(f.energy[k], f.atoms_per_graph[k])
                        ELSE f.energy[k]
                   c == IF model.composition_model
                        THEN Atom_Ref(batch, model.is_intensive)[k] ELSE 0
               IN  /\ f'.energy[k] = q
                   /\ f'.prediction["e"][k] = [q EXCEPT !.v = @ + c]
          /\ \A key \in DOMAIN f.prediction \ {"e"} :
               f'.prediction[key] = f.prediction[key]]_vars
  /\ []((pc = "collect" /\ ~model.composition_model) =>
          f.prediction["e"] = f.energy)

C21_CompositionAfterDivision ==
  /\ pc = "collect"
  /\ model.is_intensive
  /\ model.composition_model
  /\ Ran("divide") # {}
  /\ f.prediction["e"][1].v # f.energy[1].v

Plain(m) == [m EXCEPT !.is_intensive = FALSE, !.composition_model = FALSE]

Gradients(prediction) ==
  [key \in DOMAIN prediction \cap {"f", "s"} |-> prediction[key]]

(* C22: force and stress are taken from the sum over the batch of the     *)
(* extensive energy of the readout, before the division by the atom count *)
(* and before the composition energy is added; forward returns them as    *)
(* they were taken, and they are those of the extensive model without a   *)
(* composition model, whatever is_intensive and composition_model are.    *)
C22_GradientsOfExtensiveEnergy ==
  /\ [][(pc = "deriv" /\ pc' = "norm") =>
          /\ f.energy = Energy(model, g, f.atom_feas, f.atoms_per_graph)
          /\ Ran("divide") = {}
          /\ "e" \notin DOMAIN f.prediction
          /\ DOMAIN Gradients(f'.prediction)
               = (IF CallFlags.compute_force THEN {"f"} ELSE {})
                   \cup (IF CallFlags.compute_stress THEN {"s"} ELSE {})
          /\ CallFlags.compute_force =>
               f'.prediction["f"] = Force(g, f.energy)
          /\ CallFlags.compute_stress =>
               f'.prediction["s"] = Stress(g, f.energy)]_vars
  /\ [][ForwardReturns => Gradients(f'.prediction) = Gradients(f.prediction)]_vars
  /\ [](pc = "collect" =>
          Gradients(f.prediction)
            = Gradients(forward(Plain(model), batch, args.task,
                                args.return_atom_feas, args.return_crystal_feas)))

C22_IntensiveWithComposition ==
  /\ pc = "collect"
  /\ model.is_intensive
  /\ model.composition_model
  /\ CallFlags.compute_force /\ CallFlags.compute_stress
  /\ f.prediction["f"][1][1] # 0
  /\ f.prediction["s"][1].grad # 0

Alone(graph) == from_graphs(<<graph>>, CallFlags.compute_stress)

(* C23: for every batch, with angles in all, some or none of its          *)
(* structures, the batched angle_bases and the batched bond graph have    *)
(* one row per angle of the batch, and the rows structure k contributed   *)
(* stand at the same positions in both, in the structure's own order:     *)
(* the angle basis of its angle r beside the bond-graph row of angle r.   *)
C23_AngleRowsAligned ==
  FromGraphsReturned =>
    /\ Len(g.angle_bases) = AngleOffset(batch, Len(batch))
    /\ Len(g.batched_bond_graph) = Len(g.angle_bases)
    /\ \A k \in 1 .. Len(batch) :
         LET own == Alone(batch[k])
             off == AngleOffset(batch, k - 1)
         IN  /\ Len(own.angle_bases) = Len(batch[k].bond_graph)
             /\ \A r \in 1 .. Len(batch[k].bond_graph) :
                  /\ g.angle_bases[off + r] = own.angle_bases[r]
                  /\ g.batched_bond_graph[off + r]
                       = <<batch[k].bond_graph[r][1] + AtomOffset(batch, k - 1),
                           batch[k].bond_graph[r][2] + UndirectedOffset(batch, k - 1),
                           batch[k].bond_graph[r][4] + UndirectedOffset(batch, k - 1)>>

C23_MixedAngles ==
  /\ FromGraphsReturned
  /\ batch = <<IsolatedAtom, Fork>>
  /\ Len(g.angle_bases) = 6
  /\ g.angle_bases[1] # g.angle_bases[3]
  /\ g.batched_bond_graph[3] = <<2, 0, 2>>

CalculateEnded == calc # <<>> /\ pc \in {"calculated", "raised"}

(* C24: every calculate call evaluates the task efsm, whatever properties *)
(* were asked for, and ends with the total energy of the structure stored *)
(* as energy and as free_energy: the energy predict_graph returned times  *)
(* the atom count for an intensive model, and as returned for an          *)
(* extensive one.                                                         *)
C24_TotalEnergyReported ==
  /\ (calc # <<>> /\ pc # "calculate") => args.task = "efsm"
  /\ CalculateEnded =>
       /\ pc = "calculated"
       /\ calc.results.energy
            = (IF model.is_intensive
               THEN out["e"] * NAtoms(calc.atoms) ELSE out["e"])
       /\ calc.results.free_energy = calc.results.energy

====
